---- MODULE Spec2Model ----
(***************************************************************************)
(* BlrAqi: the daily AQI aggregation of aqi_fetcher_python.get_aqi_data    *)
(* and the Streamlit handler of app.py that calls it.                      *)
(*                                                                         *)
(* One call of get_aqi_data is a sequence of steps: the HTTP fetch, one    *)
(* step per raw record of the normalising loop, the creation of the bucket *)
(* mapping, one step per reading of the grouping loop, one step per bucket *)
(* of the averaging loop, and the sort and return.  The handler of app.py  *)
(* then renders the returned list or the raised exception.                 *)
(*                                                                         *)
(* Representation.                                                         *)
(*  - A raw record is a function whose DOMAIN is the set of keys the JSON  *)
(*    object carries; item[k] with k outside the DOMAIN is Python's        *)
(*    KeyError(k).                                                         *)
(*  - A date string 'YYYY-MM-DD' is the sequence of its ten characters.    *)
(*  - A dict that the code iterates (daily_data) is the sequence of its    *)
(*    entries in insertion order; a dict that is only indexed (pollutants) *)
(*    is a function.                                                       *)
(*  - A concentration is an integer number of hundredths of a ug/m3.       *)
(*  - The 'datetime' field of a processed reading (line 52) is written and *)
(*    never read, and is left out.                                         *)
(***************************************************************************)
EXTENDS Integers, Sequences, FiniteSets, TLC

VARIABLES
    utcoffset,        \* the process's local UTC offset in seconds (datetime.fromtimestamp)
    data,             \* data['list']: the raw records the provider answers with
    pc,               \* the position in get_aqi_data / whether it returned or raised
    idx,              \* the position of the running for loop
    processed_data,   \* line 47
    daily_data,       \* line 67
    final_data,       \* line 80
    aqi_data,         \* what the caller received (app.py line 36)
    err,              \* the exception that left get_aqi_data
    ui,               \* what app.py shows
    metric,           \* the label of app.py's "Average AQI" metric
    prev              \* the previous call: its data and its outcome

vars ==
    <<utcoffset, data, pc, idx, processed_data, daily_data, final_data,
      aqi_data, err, ui, metric, prev>>

(***************************************************************************)
(* Bounds of the model                                                     *)
(***************************************************************************)
\* the longest provider answer of Spec
MaxLen == 3
\* the longest provider answer of SpecMean, whose readings share one day
MaxSamples == 4
\* the longest provider answer of SpecRerun
MaxRerunLen == 2

\* no key is missing / no exception was raised / no call came before
None == "None"
NoError == [kind |-> None, key |-> None]
NoCall == [data |-> <<>>, pc |-> None, aqi_data |-> <<>>, err |-> NoError]

(***************************************************************************)
(* Pure helpers                                                            *)
(***************************************************************************)
RECURSIVE SumSeq(_)
SumSeq(s) ==
    IF s = <<>> THEN 0 ELSE Head(s) + SumSeq(Tail(s))

\* the pollutant channels, in the order lines 55-62 read them
Pollutants ==
    <<"co", "no", "no2", "o3", "so2", "pm2_5", "pm10", "nh3">>

PollutantSet ==
    {Pollutants[k] : k \in 1..Len(Pollutants)}

DigitChars ==
    <<"0", "1", "2", "3", "4", "5", "6", "7", "8", "9">>

DigitOf(ch) ==
    (CHOOSE k \in 1..10 : DigitChars[k] = ch) - 1

\* datetime.fromtimestamp(ts): the naive local date and time of an epoch
\* second (the proleptic Gregorian calendar of the days since 1970-01-01)
fromtimestamp(ts) ==
    LET local == ts + utcoffset
        days  == local \div 86400
        secs  == local % 86400
        z     == days + 719468
        era   == z \div 146097
        doe   == z - era * 146097
        yoe   == (doe - doe \div 1460 + doe \div 36524 - doe \div 146096) \div 365
        doy   == doe - (365 * yoe + yoe \div 4 - yoe \div 100)
        mp    == (5 * doy + 2) \div 153
        d     == doy - (153 * mp + 2) \div 5 + 1
        m     == IF mp < 10 THEN mp + 3 ELSE mp - 9
        y     == yoe + era * 400 + (IF m <= 2 THEN 1 ELSE 0)
    IN  [year |-> y, month |-> m, day |-> d,
         hour |-> secs \div 3600, minute |-> (secs % 3600) \div 60, second |-> secs % 60]

\* the character of one decimal digit
DigitChar(n) ==
    DigitChars[(n % 10) + 1]

\* dt.strftime('%Y-%m-%d')
strftime(dt) ==
    <<DigitChar(dt.year \div 1000), DigitChar(dt.year \div 100),
      DigitChar(dt.year \div 10), DigitChar(dt.year), "-",
      DigitChar(dt.month \div 10), DigitChar(dt.month), "-",
      DigitChar(dt.day \div 10), DigitChar(dt.day)>>

\* datetime.strptime(s, '%Y-%m-%d'), the sort key of line 98
strptime(s) ==
    [year  |-> 1000 * DigitOf(s[1]) + 100 * DigitOf(s[2]) + 10 * DigitOf(s[3]) + DigitOf(s[4]),
     month |-> 10 * DigitOf(s[6]) + DigitOf(s[7]),
     day   |-> 10 * DigitOf(s[9]) + DigitOf(s[10])]

\* datetime.__lt__ on two dates
DateLess(a, b) ==
    \/ a.year < b.year
    \/ a.year = b.year /\ a.month < b.month
    \/ a.year = b.year /\ a.month = b.month /\ a.day < b.day

\* a mutant of RoundHalfEven: ties go up
RoundHalfUp(num, den) ==
    LET q == num \div den
        r == num % den
    IN  IF 2 * r >= den THEN q + 1 ELSE q

\* a mutant of RoundHalfEven: the mean is always rounded up by one
RoundPlusOne(num, den) ==
    (num \div den) + 1

\* round(num / den) of Python 3: the nearest integer, a tie to the even one
RoundHalfEven(num, den) ==
    LET q == num \div den
        r == num % den
    IN  IF 2 * r < den THEN q
        ELSE IF 2 * r > den THEN q + 1
        ELSE IF q % 2 = 0 THEN q ELSE q + 1

\* round(sum(values) / len(values), 2) on hundredths.  A decimal tie of a
\* binary float resolves by the float's exact value; the concentrations of
\* this model are multiples of 1.00 and their means meet no tie.
Round2(num, den) ==
    RoundHalfEven(num, den)

\* a mutant of get_aqi_description: the table has no default
DescriptionNoDefault(aqi) ==
    CASE aqi = 1 -> "Good"
      [] aqi = 2 -> "Fair"
      [] aqi = 3 -> "Moderate"
      [] aqi = 4 -> "Poor"
      [] OTHER   -> "Very Poor"

get_aqi_description(aqi) ==
    CASE aqi = 1 -> "Good"
      [] aqi = 2 -> "Fair"
      [] aqi = 3 -> "Moderate"
      [] aqi = 4 -> "Poor"
      [] aqi = 5 -> "Very Poor"
      [] OTHER   -> "Unknown"

(***************************************************************************)
(* The provider's answers                                                  *)
(***************************************************************************)
\* the position of a channel in Pollutants
ChannelIndex(c) ==
    CHOOSE k \in 1..Len(Pollutants) : Pollutants[k] = c

\* One raw record with epoch second ts and AQI code aqi, lacking the keys of
\* `missing`.  Its concentrations are whole ug/m3 that differ by channel.
RawItem(ts, aqi, missing) ==
    LET main       == [k \in ({"aqi"} \ missing) |-> aqi]
        components == [c \in (PollutantSet \ missing) |-> 100 * (10 * aqi + ChannelIndex(c))]
    IN  [k \in ({"dt", "main", "components"} \ missing) |->
            CASE k = "dt"   -> ts
              [] k = "main" -> main
              [] OTHER      -> components]

\* 2023-12-31T12:00Z, 2023-12-31T20:00Z, 2024-01-01T12:00Z, 2024-02-29T23:00Z:
\* three days in UTC, and three other days at UTC+05:30
Timestamps ==
    {1704024000, 1704052800, 1704110400, 1709247600}

\* UTC, and India Standard Time
UtcOffsets ==
    {0, 19800}

MissingSets ==
    {{"so2"}, {"dt"}, {"main"}, {"aqi", "co"}, {"components"}, {"so2", "nh3"}}

WellFormed(stamps, codes) ==
    {RawItem(t, a, {}) : t \in stamps, a \in codes}

Malformed(sets) ==
    {RawItem(1704110400, 3, m) : m \in sets}

SeqsUpTo(S, n) ==
    UNION {[1..k -> S] : k \in 0..n}

\* Spec: readings of several days with some malformed records among them
Inputs ==
    SeqsUpTo(WellFormed(Timestamps, {1, 4}) \cup Malformed(MissingSets), MaxLen)

\* SpecMean: readings of one day with every AQI code of 0..6, and one reading
\* of another day
MeanInputs ==
    SeqsUpTo(WellFormed({1704110400}, 0..6) \cup WellFormed({1709247600}, {5})
                 \cup Malformed({{"so2"}}),
             MaxSamples)

\* SpecRerun: readings of two days, the first day with two AQI codes
RerunInputs ==
    SeqsUpTo(WellFormed({1704024000}, {1, 5}) \cup WellFormed({1704110400}, {1})
                 \cup Malformed({{"so2"}}),
             MaxRerunLen)

(***************************************************************************)
(* get_aqi_data, lines 46-64: the normaliser                               *)
(***************************************************************************)
Min(S) ==
    CHOOSE x \in S : \A y \in S : x <= y

\* the key whose lookup raises KeyError first, in the order lines 49-62
\* evaluate the subscripts; None when every lookup succeeds
FirstMissing(item) ==
    IF "dt" \notin DOMAIN item THEN "dt"
    ELSE IF "main" \notin DOMAIN item THEN "main"
    ELSE IF "aqi" \notin DOMAIN item["main"] THEN "aqi"
    ELSE IF "components" \notin DOMAIN item THEN "components"
    ELSE LET miss == {k \in 1..Len(Pollutants) :
                         Pollutants[k] \notin DOMAIN item["components"]}
         IN  IF miss = {} THEN None ELSE Pollutants[Min(miss)]

\* a mutant of Normalize: a channel the record lacks reads as 0 (dict.get)
NormalizeWithDefaults(item) ==
    IF FirstMissing(item) \in {"dt", "main", "aqi", "components"}
    THEN [key |-> FirstMissing(item), reading |-> <<>>]
    ELSE [key |-> None,
          reading |->
            [date |-> strftime(fromtimestamp(item["dt"])),
             aqi |-> item["main"]["aqi"],
             pollutants |->
               [c \in PollutantSet |->
                  IF c \in DOMAIN item["components"] THEN item["components"][c] ELSE 0]]]

\* lines 49-64 on one raw record: the reading appended to processed_data, or
\* the key of the KeyError
Normalize(item) ==
    IF FirstMissing(item) # None
    THEN [key |-> FirstMissing(item), reading |-> <<>>]
    ELSE [key |-> None,
          reading |->
            [date |-> strftime(fromtimestamp(item["dt"])),
             aqi |-> item["main"]["aqi"],
             pollutants |-> [c \in PollutantSet |-> item["components"][c]]]]

(***************************************************************************)
(* get_aqi_data, lines 66-77: grouping by date                             *)
(***************************************************************************)
\* a mutant of NewDailyData: the mapping of the previous call is used again
StaleDailyData ==
    daily_data

\* a mutant of NewDailyData: a default bucket was created by a mere lookup
TouchedDailyData ==
    <<[date |-> strftime(fromtimestamp(1704110400)), aqi_values |-> <<>>,
       pollutants |-> <<>>]>>

\* line 67: defaultdict(lambda: ...), an empty mapping
NewDailyData ==
    <<>>

\* the default factory of line 67: empty aqi_values, an empty defaultdict(list)
NewBucket(date) ==
    [date |-> date, aqi_values |-> <<>>, pollutants |-> <<>>]

\* a mutant of BucketIndex: no key is ever found
BucketIndexNever(dd, date) ==
    0

\* the position of the bucket of `date` in the mapping, 0 when it has none
BucketIndex(dd, date) ==
    LET S == {k \in 1..Len(dd) : dd[k].date = date}
    IN  IF S = {} THEN 0 ELSE Min(S)

\* a mutant of AppendPollutants: the last channel is forgotten
AppendPollutantsButLast(pol, itemPol) ==
    [c \in (DOMAIN pol \cup (DOMAIN itemPol \ {"nh3"})) |->
        IF c \in DOMAIN itemPol
        THEN Append(IF c \in DOMAIN pol THEN pol[c] ELSE <<>>, itemPol[c])
        ELSE pol[c]]

\* lines 76-77: each value of the reading is appended to its channel's list,
\* which defaultdict(list) creates on first use
AppendPollutants(pol, itemPol) ==
    [c \in (DOMAIN pol \cup DOMAIN itemPol) |->
        IF c \in DOMAIN itemPol
        THEN Append(IF c \in DOMAIN pol THEN pol[c] ELSE <<>>, itemPol[c])
        ELSE pol[c]]

\* a mutant of AddReading: an AQI code the bucket already holds is not added
AddReadingDedup(dd, item) ==
    LET k   == BucketIndex(dd, item.date)
        dd1 == IF k = 0 THEN Append(dd, NewBucket(item.date)) ELSE dd
        j   == IF k = 0 THEN Len(dd1) ELSE k
    IN  IF \E n \in 1..Len(dd1[j].aqi_values) : dd1[j].aqi_values[n] = item.aqi
        THEN dd1
        ELSE [dd1 EXCEPT ![j] =
                [@ EXCEPT !.aqi_values = Append(@, item.aqi),
                          !.pollutants = AppendPollutants(@, item.pollutants)]]

\* lines 73-77 on one reading
AddReading(dd, item) ==
    LET k   == BucketIndex(dd, item.date)
        dd1 == IF k = 0 THEN Append(dd, NewBucket(item.date)) ELSE dd
        j   == IF k = 0 THEN Len(dd1) ELSE k
    IN  [dd1 EXCEPT ![j] =
            [@ EXCEPT !.aqi_values = Append(@, item.aqi),
                      !.pollutants = AppendPollutants(@, item.pollutants)]]

(***************************************************************************)
(* get_aqi_data, lines 79-100: averaging, labelling, sorting               *)
(***************************************************************************)
\* neither division of lines 83 and 88 is by zero
CanAverage(b) ==
    /\ Len(b.aqi_values) > 0
    /\ \A c \in DOMAIN b.pollutants : Len(b.pollutants[c]) > 0

\* lines 83-95 on one bucket
Summary(b) ==
    LET avg_aqi == RoundHalfEven(SumSeq(b.aqi_values), Len(b.aqi_values))
    IN  [date |-> b.date,
         aqi |-> avg_aqi,
         aqi_description |-> get_aqi_description(avg_aqi),
         pollutants |->
            [c \in DOMAIN b.pollutants |->
                Round2(SumSeq(b.pollutants[c]), Len(b.pollutants[c]))]]

RECURSIVE InsertByDate(_, _)
InsertByDate(sorted, x) ==
    IF sorted = <<>> THEN <<x>>
    ELSE IF DateLess(strptime(x.date), strptime(Head(sorted).date))
         THEN <<x>> \o sorted
         ELSE <<Head(sorted)>> \o InsertByDate(Tail(sorted), x)

\* a mutant of SortByDate: the list is left in the order of the buckets
Unsorted(s) ==
    s

\* line 98: list.sort, stable, by the parsed date
RECURSIVE SortByDate(_)
SortByDate(s) ==
    IF s = <<>> THEN <<>>
    ELSE InsertByDate(SortByDate(SubSeq(s, 1, Len(s) - 1)), s[Len(s)])

(***************************************************************************)
(* The steps of one call                                                   *)
(***************************************************************************)
InitWith(offsets, inputs) ==
    /\ utcoffset \in offsets
    /\ data \in inputs
    /\ pc = "fetch"
    /\ idx = 0
    /\ processed_data = <<>>
    /\ daily_data = <<>>
    /\ final_data = <<>>
    /\ aqi_data = <<>>
    /\ err = NoError
    /\ ui = "spinner"
    /\ metric = None
    /\ prev = NoCall

\* lines 41-47: the request succeeds and the answer is parsed
Fetch ==
    /\ pc = "fetch"
    /\ pc' = "normalize"
    /\ idx' = 1
    /\ processed_data' = <<>>
    /\ UNCHANGED <<utcoffset, data, daily_data, final_data, aqi_data, err, ui, metric, prev>>

\* lines 41-42 and 102-104: the request fails and the exception is re-raised
FetchFails ==
    /\ pc = "fetch"
    /\ pc' = "raised"
    /\ err' = [kind |-> "RequestException", key |-> None]
    /\ UNCHANGED <<utcoffset, data, idx, processed_data, daily_data, final_data,
                   aqi_data, ui, metric, prev>>

\* lines 48-64 on data['list'][idx], and lines 105-107 when a key is missing
NormalizeItem ==
    /\ pc = "normalize"
    /\ idx <= Len(data)
    /\ LET r == Normalize(data[idx])
       IN  IF r.key = None
           THEN /\ processed_data' = Append(processed_data, r.reading)
                /\ idx' = idx + 1
                /\ UNCHANGED <<pc, err>>
           ELSE /\ pc' = "raised"
                /\ err' = [kind |-> "KeyError", key |-> r.key]
                /\ UNCHANGED <<processed_data, idx>>
    /\ UNCHANGED <<utcoffset, data, daily_data, final_data, aqi_data, ui, metric, prev>>

\* lines 67-70: the normalising loop is over and the bucket mapping is created
StartGrouping ==
    /\ pc = "normalize"
    /\ idx > Len(data)
    /\ daily_data' = NewDailyData
    /\ pc' = "group"
    /\ idx' = 1
    /\ UNCHANGED <<utcoffset, data, processed_data, final_data, aqi_data, err, ui, metric, prev>>

\* lines 72-77 on processed_data[idx]
GroupItem ==
    /\ pc = "group"
    /\ idx <= Len(processed_data)
    /\ daily_data' = AddReading(daily_data, processed_data[idx])
    /\ idx' = idx + 1
    /\ UNCHANGED <<utcoffset, data, pc, processed_data, final_data, aqi_data, err, ui, metric, prev>>

\* line 80: the grouping loop is over
StartAveraging ==
    /\ pc = "group"
    /\ idx > Len(processed_data)
    /\ final_data' = <<>>
    /\ pc' = "average"
    /\ idx' = 1
    /\ UNCHANGED <<utcoffset, data, processed_data, daily_data, aqi_data, err, ui, metric, prev>>

\* lines 81-95 on the idx-th bucket, and lines 108-110 on a division by zero
AverageBucket ==
    /\ pc = "average"
    /\ idx <= Len(daily_data)
    /\ IF CanAverage(daily_data[idx])
       THEN /\ final_data' = Append(final_data, Summary(daily_data[idx]))
            /\ idx' = idx + 1
            /\ UNCHANGED <<pc, err>>
       ELSE /\ pc' = "raised"
            /\ err' = [kind |-> "ZeroDivisionError", key |-> None]
            /\ UNCHANGED <<final_data, idx>>
    /\ UNCHANGED <<utcoffset, data, processed_data, daily_data, aqi_data, ui, metric, prev>>

\* lines 97-100: the averaging loop is over; sort in place and return
SortAndReturn ==
    /\ pc = "average"
    /\ idx > Len(daily_data)
    /\ final_data' = SortByDate(final_data)
    /\ aqi_data' = final_data'
    /\ pc' = "returned"
    /\ UNCHANGED <<utcoffset, data, idx, processed_data, daily_data, err, ui, metric, prev>>

(***************************************************************************)
(* app.py, lines 33-88: the handler of the Fetch button                    *)
(***************************************************************************)
\* lines 38-39
ShowWarning ==
    /\ pc = "returned"
    /\ ui = "spinner"
    /\ aqi_data = <<>>
    /\ ui' = "warning"
    /\ UNCHANGED <<utcoffset, data, pc, idx, processed_data, daily_data, final_data,
                   aqi_data, err, metric, prev>>

\* lines 51 and 54: the label of the rounded mean of the daily AQIs
AverageLabel(rows) ==
    get_aqi_description(
        RoundHalfEven(SumSeq([k \in 1..Len(rows) |-> rows[k].aqi]), Len(rows)))

\* lines 40-85
ShowSuccess ==
    /\ pc = "returned"
    /\ ui = "spinner"
    /\ aqi_data # <<>>
    /\ ui' = "success"
    /\ metric' = AverageLabel(aqi_data)
    /\ UNCHANGED <<utcoffset, data, pc, idx, processed_data, daily_data, final_data,
                   aqi_data, err, prev>>

\* lines 87-88
ShowError ==
    /\ pc = "raised"
    /\ ui = "spinner"
    /\ ui' = "error"
    /\ UNCHANGED <<utcoffset, data, pc, idx, processed_data, daily_data, final_data,
                   aqi_data, err, metric, prev>>

\* line 33 again: the button is pressed once more and the script reruns.  The
\* locals of get_aqi_data keep their last values until the new call assigns
\* them (lines 47, 67, 80), which it does before it reads them.
FetchAgain ==
    /\ ui \in {"warning", "success", "error"}
    /\ prev' = [data |-> data, pc |-> pc, aqi_data |-> aqi_data, err |-> err]
    /\ data' \in RerunInputs
    /\ pc' = "fetch"
    /\ idx' = 0
    /\ aqi_data' = <<>>
    /\ err' = NoError
    /\ ui' = "spinner"
    /\ metric' = None
    /\ UNCHANGED <<utcoffset, processed_data, daily_data, final_data>>

Call ==
    \/ Fetch
    \/ FetchFails
    \/ NormalizeItem
    \/ StartGrouping
    \/ GroupItem
    \/ StartAveraging
    \/ AverageBucket
    \/ SortAndReturn
    \/ ShowWarning
    \/ ShowSuccess
    \/ ShowError

Init ==
    InitWith(UtcOffsets, Inputs)

Next ==
    Call

Spec ==
    Init /\ [][Next]_vars

InitMean ==
    InitWith({19800}, MeanInputs)

SpecMean ==
    InitMean /\ [][Next]_vars

InitRerun ==
    InitWith({19800}, RerunInputs)

\* the calls of SpecRerun reach the provider: the transport does not fail
NextRerun ==
    \/ Fetch
    \/ NormalizeItem
    \/ StartGrouping
    \/ GroupItem
    \/ StartAveraging
    \/ AverageBucket
    \/ SortAndReturn
    \/ ShowWarning
    \/ ShowSuccess
    \/ ShowError
    \/ FetchAgain

SpecRerun ==
    InitRerun /\ [][NextRerun]_vars

(***************************************************************************)
(* What the claims speak of, stated on the provider's answer itself        *)
(***************************************************************************)
\* the record carries the timestamp, the AQI code and the eight channels
Complete(item) ==
    /\ {"dt", "main", "components"} \subseteq DOMAIN item
    /\ "aqi" \in DOMAIN item["main"]
    /\ PollutantSet \subseteq DOMAIN item["components"]

\* the required keys the record lacks, a nested key with its parent
AbsentKeys(item) ==
    ({"dt", "main", "components"} \ DOMAIN item)
    \cup (IF "main" \in DOMAIN item THEN {"aqi"} \ DOMAIN item["main"] ELSE {"aqi"})
    \cup (IF "components" \in DOMAIN item
          THEN PollutantSet \ DOMAIN item["components"]
          ELSE PollutantSet)

AllComplete ==
    \A i \in 1..Len(data) : Complete(data[i])

\* the local day of a record, counted from 1970-01-01
DayNumber(item) ==
    (item["dt"] + utcoffset) \div 86400

\* the day key of a record, as the output writes it
DayKey(item) ==
    strftime(fromtimestamp(item["dt"]))

\* the AQI codes of the first k records whose day key is `date`, in arrival order
RECURSIVE CodesOf(_, _)
CodesOf(date, k) ==
    IF k = 0 THEN <<>>
    ELSE IF DayKey(data[k]) = date
         THEN Append(CodesOf(date, k - 1), data[k]["main"]["aqi"])
         ELSE CodesOf(date, k - 1)

SeqRange(s) ==
    {s[k] : k \in 1..Len(s)}

Abs(x) ==
    IF x < 0 THEN -x ELSE x

\* the integer nearest to total/n, the even one of two equally near
NearestEven(total, n) ==
    CHOOSE r \in (total \div n)..((total \div n) + 1) :
        /\ 2 * Abs(n * r - total) <= n
        /\ (2 * Abs(n * r - total) = n => r % 2 = 0)

Label(aqi) ==
    IF aqi = 1 THEN "Good"
    ELSE IF aqi = 2 THEN "Fair"
    ELSE IF aqi = 3 THEN "Moderate"
    ELSE IF aqi = 4 THEN "Poor"
    ELSE IF aqi = 5 THEN "Very Poor"
    ELSE "Unknown"

\* the provider answered and get_aqi_data ended
Ended ==
    /\ pc \in {"returned", "raised"}
    /\ err.kind # "RequestException"

(***************************************************************************)
(* C1: when every raw record carries the required fields, the returned     *)
(* list has exactly one summary per distinct day of the input: as many     *)
(* distinct dates as the input has distinct days, and no date twice.       *)
(***************************************************************************)
OneSummaryPerDay ==
    (pc = "returned" /\ AllComplete) =>
        /\ Cardinality({aqi_data[k].date : k \in 1..Len(aqi_data)})
             = Cardinality({DayNumber(data[i]) : i \in 1..Len(data)})
        /\ {aqi_data[k].date : k \in 1..Len(aqi_data)}
             = {DayKey(data[i]) : i \in 1..Len(data)}
        /\ \A j, k \in 1..Len(aqi_data) : aqi_data[j].date = aqi_data[k].date => j = k

\* three readings of two days came back as two summaries
OneSummaryPerDayWitness ==
    /\ pc = "returned"
    /\ Len(data) = 3
    /\ Len(aqi_data) = 2
    /\ DayNumber(data[1]) = DayNumber(data[3])
    /\ DayNumber(data[1]) # DayNumber(data[2])

(***************************************************************************)
(* C2: whatever the arrival order, the returned list is strictly ascending *)
(* by calendar date: of two adjacent summaries the earlier has the smaller *)
(* date, and is the summary of an earlier day of the input.                *)
(***************************************************************************)
AscendingByDate ==
    pc = "returned" =>
        \A k \in 1..(Len(aqi_data) - 1) :
            /\ DateLess(strptime(aqi_data[k].date), strptime(aqi_data[k + 1].date))
            /\ \E i, j \in 1..Len(data) :
                  /\ DayKey(data[i]) = aqi_data[k].date
                  /\ DayKey(data[j]) = aqi_data[k + 1].date
                  /\ DayNumber(data[i]) < DayNumber(data[j])

\* three days that arrived in reverse chronological order
AscendingByDateWitness ==
    /\ pc = "returned"
    /\ Len(data) = 3
    /\ Len(aqi_data) = 3
    /\ DayNumber(data[1]) > DayNumber(data[2])
    /\ DayNumber(data[2]) > DayNumber(data[3])
    /\ aqi_data[1].date = DayKey(data[3])
    /\ aqi_data[3].date = DayKey(data[1])

(***************************************************************************)
(* C3: when a raw record lacks a required field, the call ends with a      *)
(* KeyError that names a key the first such record lacks, and the caller   *)
(* receives no summary at all; a call that returns a list had only         *)
(* complete records and raised nothing.                                    *)
(***************************************************************************)
MalformedRecordRejected ==
    /\ (Ended /\ ~AllComplete) =>
          LET bad == Min({i \in 1..Len(data) : ~Complete(data[i])})
          IN  /\ pc = "raised"
              /\ err.kind = "KeyError"
              /\ err.key \in AbsentKeys(data[bad])
              /\ final_data = <<>>
              /\ aqi_data = <<>>
              /\ ui \in {"spinner", "error"}
    /\ pc = "returned" =>
          /\ AllComplete
          /\ err = NoError
          /\ SumSeq([k \in 1..Len(daily_data) |-> Len(daily_data[k].aqi_values)]) = Len(data)

\* a record without so2 after two good ones: KeyError('so2'), nothing returned
MalformedRecordRejectedWitness ==
    /\ pc = "raised"
    /\ ui = "error"
    /\ Len(data) = 3
    /\ Len(processed_data) = 2
    /\ AbsentKeys(data[3]) = {"so2"}
    /\ err = [kind |-> "KeyError", key |-> "so2"]
    /\ aqi_data = <<>>

(***************************************************************************)
(* C4: the 'aqi' of every summary is the mean of that day's AQI codes      *)
(* rounded to the nearest integer, a tie going to the even integer:        *)
(* [2, 3, 3, 4] gives 3 (Moderate), [2, 3] gives 2 and [3, 4] gives 4.     *)
(***************************************************************************)
MeanRoundedHalfEven ==
    /\ \A k \in 1..Len(final_data) :
          LET codes == CodesOf(final_data[k].date, Len(data))
          IN  final_data[k].aqi = NearestEven(SumSeq(codes), Len(codes))
    /\ \A k \in 1..Len(final_data) :
          LET codes == CodesOf(final_data[k].date, Len(data))
          IN  /\ codes = <<2, 3, 3, 4>> =>
                    final_data[k].aqi = 3 /\ final_data[k].aqi_description = "Moderate"
              /\ codes = <<2, 3>> => final_data[k].aqi = 2
              /\ codes = <<3, 4>> => final_data[k].aqi = 4

\* the tie 2.5 of the codes [2, 3] went down to the even 2
MeanRoundedHalfEvenWitness ==
    /\ pc = "returned"
    /\ Len(aqi_data) = 1
    /\ CodesOf(aqi_data[1].date, Len(data)) = <<2, 3>>
    /\ aqi_data[1].aqi = 2
    /\ aqi_data[1].aqi_description = "Fair"

(***************************************************************************)
(* C5: the classification is total: 1..5 map to Good, Fair, Moderate,      *)
(* Poor, Very Poor and every other integer to Unknown; every summary's     *)
(* label is the label of its rounded 'aqi', and so is the label of the     *)
(* handler's average; no call ends in an error of the classification.      *)
(***************************************************************************)
LabelOfRoundedAqi ==
    /\ \A k \in 1..Len(final_data) :
          final_data[k].aqi_description = Label(final_data[k].aqi)
    /\ ui = "success" =>
          metric = Label(NearestEven(SumSeq([k \in 1..Len(aqi_data) |-> aqi_data[k].aqi]),
                                     Len(aqi_data)))
    /\ pc = "raised" => err.kind \in {"RequestException", "KeyError"}
    /\ (pc = "returned" /\ AllComplete) => Len(aqi_data) = Len(daily_data)

\* an average of 6 and an average of 0 are shown as Unknown
LabelOfRoundedAqiWitness ==
    /\ pc = "returned"
    /\ Len(aqi_data) = 1
    /\ aqi_data[1].aqi \in {0, 6}
    /\ aqi_data[1].aqi_description = "Unknown"
    /\ ui = "success"
    /\ metric = "Unknown"

(***************************************************************************)
(* C6: an empty answer is aggregated to the empty list without an error:   *)
(* no bucket is created, no mean is computed, and the call returns [].     *)
(***************************************************************************)
EmptyInEmptyOut ==
    (data = <<>> /\ pc # "fetch" /\ err.kind # "RequestException") =>
        /\ pc # "raised"
        /\ err = NoError
        /\ processed_data = <<>>
        /\ (pc \in {"group", "average", "returned"} => daily_data = <<>>)
        /\ final_data = <<>>
        /\ aqi_data = <<>>
        /\ ui \in {"spinner", "warning"}

\* the empty answer was returned as [] and shown as "No data"
EmptyInEmptyOutWitness ==
    /\ data = <<>>
    /\ pc = "returned"
    /\ aqi_data = <<>>
    /\ ui = "warning"

(***************************************************************************)
(* C7: a call on the same readings as the call before it ends the same     *)
(* way, with an identical list; the bucket mapping a call groups into      *)
(* holds nothing of an earlier call.                                       *)
(***************************************************************************)
SameInputSameOutput ==
    /\ (prev.pc # None /\ prev.data = data /\ pc \in {"returned", "raised"}) =>
          /\ pc = prev.pc
          /\ aqi_data = prev.aqi_data
          /\ err = prev.err
    /\ (prev.pc # None /\ pc = "group") =>
          SumSeq([k \in 1..Len(daily_data) |-> Len(daily_data[k].aqi_values)]) = idx - 1

\* the second of two calls on the same two readings returned the same list
SameInputSameOutputWitness ==
    /\ prev.pc = "returned"
    /\ prev.data = data
    /\ Len(data) = 2
    /\ pc = "returned"
    /\ aqi_data # <<>>
    /\ aqi_data = prev.aqi_data

(***************************************************************************)
(* C8: in the grouping loop, after the first k readings the buckets hold k *)
(* AQI samples in all; the buckets are those of the days seen so far, one  *)
(* per day, and each holds the codes of the readings of its day in arrival *)
(* order, duplicates included.                                             *)
(***************************************************************************)
EachReadingOnceInItsBucket ==
    pc = "group" =>
        LET k == idx - 1
        IN  /\ SumSeq([b \in 1..Len(daily_data) |-> Len(daily_data[b].aqi_values)]) = k
            /\ {daily_data[b].date : b \in 1..Len(daily_data)}
                 = {DayKey(data[i]) : i \in 1..k}
            /\ \A a, b \in 1..Len(daily_data) :
                  daily_data[a].date = daily_data[b].date => a = b
            /\ \A b \in 1..Len(daily_data) :
                  daily_data[b].aqi_values = CodesOf(daily_data[b].date, k)

\* two readings with the same timestamp and code are two samples of one bucket
EachReadingOnceInItsBucketWitness ==
    /\ pc = "group"
    /\ idx = 4
    /\ data[1] = data[3]
    /\ DayNumber(data[2]) # DayNumber(data[1])
    /\ Len(daily_data) = 2
    /\ Len(daily_data[1].aqi_values) = 2
    /\ daily_data[1].aqi_values[1] = daily_data[1].aqi_values[2]

(***************************************************************************)
(* C9: no mean is taken over zero samples: every bucket that exists when   *)
(* the averages are computed has, for each of the eight channels, as many  *)
(* samples as AQI codes and at least one, every summary carries the eight  *)
(* channels, and no call ends in a division by zero.                       *)
(***************************************************************************)
NoEmptyChannel ==
    /\ pc \in {"average", "returned"} =>
          \A b \in 1..Len(daily_data) :
              /\ Len(daily_data[b].aqi_values) > 0
              /\ DOMAIN daily_data[b].pollutants = PollutantSet
              /\ \A c \in PollutantSet :
                    Len(daily_data[b].pollutants[c]) = Len(daily_data[b].aqi_values)
    /\ \A k \in 1..Len(final_data) : DOMAIN final_data[k].pollutants = PollutantSet
    /\ err.kind # "ZeroDivisionError"

\* a bucket of two readings was averaged over two samples of every channel
NoEmptyChannelWitness ==
    /\ pc = "average"
    /\ idx = 2
    /\ Len(final_data) = 1
    /\ Len(daily_data[1].aqi_values) = 2
    /\ \A c \in PollutantSet : Len(daily_data[1].pollutants[c]) = 2
    /\ DOMAIN final_data[1].pollutants = PollutantSet

(***************************************************************************)
(* C10: the 'aqi' of every summary lies between the least and the greatest *)
(* AQI code of its day; a day of one sample reports that sample; and when  *)
(* every code of the input is in 1..5 no summary is labelled Unknown.      *)
(***************************************************************************)
AqiWithinSamples ==
    \A k \in 1..Len(final_data) :
        LET codes == CodesOf(final_data[k].date, Len(data))
        IN  /\ \E c \in SeqRange(codes) : c <= final_data[k].aqi
            /\ \E c \in SeqRange(codes) : final_data[k].aqi <= c
            /\ Len(codes) = 1 => final_data[k].aqi = codes[1]
            /\ (\A i \in 1..Len(data) : data[i]["main"]["aqi"] \in 1..5) =>
                  final_data[k].aqi_description # "Unknown"

\* a day of the codes 1 and 5 and a day of the single code 5
AqiWithinSamplesWitness ==
    /\ pc = "returned"
    /\ Len(aqi_data) = 2
    /\ \E k \in 1..2 :
          /\ Len(CodesOf(aqi_data[k].date, Len(data))) = 1
          /\ aqi_data[k].aqi = 5
    /\ \E k \in 1..2 :
          /\ SeqRange(CodesOf(aqi_data[k].date, Len(data))) = {1, 5}
          /\ aqi_data[k].aqi \in 2..4
          /\ aqi_data[k].aqi_description # "Unknown"

====
